---- MODULE Spec2Model ----
(***************************************************************************)
(* Song quiz and highscore list of the Spotify explorer dashboard          *)
(* (src/app.py).  Streamlit runs the whole script once for every widget    *)
(* event and once more for every st.rerun(): an action is one script run.  *)
(* A run that ends in st.rerun() leaves its session waiting for that rerun *)
(* (pc = "rerun"); until it has run, the browser still shows the widgets   *)
(* of the run before, of which only the two sidebar buttons are rendered   *)
(* by every run (a click on any other of them finds its widget no longer   *)
(* rendered and has the effect of the plain rerun).  save_highscores is    *)
(* two steps on the shared file: open(.., 'w') truncates it, json.dump and *)
(* close write the text from offset 0.                                     *)
(***************************************************************************)
EXTENDS Integers, Sequences, FiniteSets

VARIABLES
    df,             \* result of load_data(): [is_none, rows]
    sessions,       \* the browser sessions served by the process
    session_state,  \* st.session_state of every session
    pc,             \* per session: "idle", "rerun" (st.rerun() asked for) or
                    \* "dump" (inside save_highscores, file opened)
    highscore_file, \* highscores.json: the list whose text was written last
                    \* from offset 0
    file_size,      \* highscores.json: its size in characters, NoFile when
                    \* the file does not exist
    notice,         \* per session: one-shot message of the last script run
    drawn,          \* history: ids of the tracks drawn in the running quiz
    scored,         \* history: number and sum of the round totals scored in
                    \* the running quiz
    recorded,       \* history: scores handed to the highscore list, in order
    games_left,     \* exploration budget: quiz starts left per session
    saves_left      \* exploration budget: highscore saves left

vars == <<df, sessions, session_state, pc, highscore_file, file_size, notice,
          drawn, scored, recorded, games_left, saves_left>>

-----------------------------------------------------------------------------
(* Bounds of the exploration *)

MaxGames == 2

MaxSaves == 6

MaxGamesMulti == 1

MaxSavesMulti == 3

(* Program constants *)

ROUNDS == 5

TOP_N == 5

SLIDER_MIN == 0

SLIDER_MAX == 100

SCALE_DIVISOR == 10

MAX_POINTS == 100

-----------------------------------------------------------------------------
(* Data *)

Attrs == {"dance", "energy", "valence"}

Max(a, b) == IF a >= b THEN a ELSE b

Min(a, b) == IF a <= b THEN a ELSE b

Abs(a) == IF a >= 0 THEN a ELSE -a

\* A row of the data frame after load_data(): danceability, energy and valence
\* are already multiplied by 100.  link is "track" for a player URL holding
\* the /track/ segment, "other" for a string without it, "missing" for a
\* value that is no string (None / NaN).
Track(i, l, d, e, v, p) ==
    [id |-> i, link |-> l, danceability |-> d, energy |-> e, valence |-> v,
     popularity |-> p]

\* st.session_state.current_song = None
NoSong == Track(0, "none", 0, 0, 0, 0)

T1 == Track(1, "track", 55, 55, 55, 80)

T2 == Track(2, "track", 20, 59, 57, 40)

T3 == Track(3, "missing", 30, 60, 90, 10)

T4 == Track(4, "other", 55, 55, 55, 80)

\* the rows a playlist of the model can hold
Tracks == {T1, T2, T3, T4}

DataFrame(rs) == [is_none |-> FALSE, rows |-> rs]

\* load_data() returns None from its except branch
NoneFrame == [is_none |-> TRUE, rows |-> {}]

\* What the Spotify API answers: the call raises or gives the playlist's
\* tracks, and sp.audio_features gives for the tracks no objects ("none"),
\* objects without a release_date key ("plain", the documented audio
\* features object) or objects with release_date and duration_ms ("dated").
Response(f, its, feat) == [fails |-> f, items |-> its, features |-> feat]

\* load_data(): no tracks give the empty frame; with tracks, the merge on
\* 'id' raises when there are no feature objects, and
\* pd.to_datetime(df_full.get('release_date', pd.NaT)).dt raises when no
\* feature object has a release_date (NaT has no .dt); every exception ends
\* in "return None"
load_data(r) ==
    IF r.fails THEN NoneFrame
    ELSE IF r.items = {} THEN DataFrame({})
    ELSE IF r.features # "dated" THEN NoneFrame
    ELSE DataFrame(r.items)

Responses ==
    {Response(TRUE, {}, "none"), Response(FALSE, {}, "none"),
     Response(FALSE, {T1, T2}, "none"), Response(FALSE, {T1, T2}, "plain"),
     Response(FALSE, {T3}, "dated"), Response(FALSE, {T1, T2}, "dated"),
     Response(FALSE, {T1, T3}, "dated"), Response(FALSE, {T4}, "dated")}

Datasets == {load_data(r) : r \in Responses}

\* the three sliders of the guess form
Guess(d, e, v) == [dance |-> d, energy |-> e, valence |-> v]

\* st.session_state has no key "guesses"
NoGuesses == Guess(-1, -1, -1)

GuessInputs == {Guess(50, 50, 50), Guess(70, 30, 50)}

\* browser sessions a run of the model may connect
SessionIds == {1, 2}

PlayerNames == {"", "ann"}

-----------------------------------------------------------------------------
(* Scoring (game_page, "ERGEBNISSE ANZEIGEN") *)

\* int(song[col] / 10) for a value that is not negative
ActualValue(v) == v \div SCALE_DIVISOR

actual_values(song) ==
    [dance   |-> ActualValue(song.danceability),
     energy  |-> ActualValue(song.energy),
     valence |-> ActualValue(song.valence)]

\* diff = abs(actual - guess); points = max(0, 100 - diff)
Points(actual, guess) == Max(0, MAX_POINTS - Abs(actual - guess))

\* the loop of st.metric tiles: the points shown for one attribute
DisplayedPoints(song, user_guesses, attr) ==
    Points(actual_values(song)[attr], user_guesses[attr])

\* a round total that also scores popularity (against the slider default)
RoundScoreWithPopularity(song, user_guesses) ==
    Points(actual_values(song)["dance"], user_guesses["dance"])
    + Points(actual_values(song)["energy"], user_guesses["energy"])
    + Points(actual_values(song)["valence"], user_guesses["valence"])
    + Points(ActualValue(song.popularity), 50)

\* the loop "for attr in ['dance', 'energy', 'valence']: round_score += points"
RoundScore(song, user_guesses) ==
    Points(actual_values(song)["dance"], user_guesses["dance"])
    + Points(actual_values(song)["energy"], user_guesses["energy"])
    + Points(actual_values(song)["valence"], user_guesses["valence"])

-----------------------------------------------------------------------------
(* Highscore list *)

\* os.path.exists(HIGHSCORE_FILE) is false
NoFile == -1

NameLen(n) == IF n = "ann" THEN 3 ELSE 0

Digits(n) == IF n < 10 THEN 1 ELSE IF n < 100 THEN 2 ELSE IF n < 1000 THEN 3 ELSE 4

\* length of the text json.dump(scores, f, indent=4) writes: "[]" for the
\* empty list, else 2 characters and for every entry 51 and its name and score
RECURSIVE TextLen(_)
TextLen(scores) ==
    IF scores = <<>> THEN 2
    ELSE IF Len(scores) = 1
         THEN 53 + NameLen(scores[1].name) + Digits(scores[1].score)
         ELSE 51 + NameLen(Head(scores).name) + Digits(Head(scores).score)
              + TextLen(Tail(scores))

\* json.load succeeds: the file holds the text of one list and nothing else
\* (not the empty file a writer has just opened, not a text with the tail
\* of a longer one behind it)
Parses == file_size = TextLen(highscore_file)

\* load_highscores(): [] when there is no file or json.load raises, else the
\* list in the file
load_highscores == IF file_size # NoFile /\ Parses THEN highscore_file ELSE <<>>

\* position of a new element in a list sorted by score, descending, behind
\* every element whose score is not smaller (sorted() is stable)
RECURSIVE InsertByScore(_, _)
InsertByScore(e, s) ==
    IF s = <<>> THEN <<e>>
    ELSE IF Head(s).score >= e.score
         THEN <<Head(s)>> \o InsertByScore(e, Tail(s))
         ELSE <<e>> \o s

\* sorted(scores, key=lambda x: x['score'], reverse=True)
RECURSIVE SortByScoreDesc(_)
SortByScoreDesc(s) ==
    IF s = <<>> THEN <<>>
    ELSE InsertByScore(s[Len(s)], SortByScoreDesc(SubSeq(s, 1, Len(s) - 1)))

\* a list that is never cut
KeepAll(s) == s

\* [:5]
TopSlice(s) == SubSeq(s, 1, Min(TOP_N, Len(s)))

\* high_scores.append(new_score); sorted(...)[:5]
WithNewScore(high_scores, new_score) ==
    TopSlice(SortByScoreDesc(Append(high_scores, new_score)))

-----------------------------------------------------------------------------
(* One run of game_page without a widget event *)

FreshSession ==
    [page |-> "unset", quiz_keys |-> FALSE, game_round |-> 0, total_score |-> 0,
     high_scores |-> <<>>, current_song |-> NoSong, guess_submitted |-> FALSE,
     score_calculated |-> FALSE, guesses |-> NoGuesses, last_round_score |-> -1,
     song_select |-> NoSong]

\* "if 'game_round' not in st.session_state: ..."
InitQuizKeys(st) ==
    IF st.quiz_keys THEN st
    ELSE [st EXCEPT !.quiz_keys = TRUE, !.game_round = 0, !.total_score = 0,
                    !.high_scores = load_highscores, !.current_song = NoSong,
                    !.guess_submitted = FALSE, !.score_calculated = FALSE]

\* song['link'].split('/track/') raises: the song is None or its link is no string
LinkRaises(song) == song = NoSong \/ song.link = "missing"

\* track_id = song['link'].split('/track/')[-1].split('?')[0]: the id behind
\* the /track/ segment, the whole link (up to a "?") when there is no such
\* segment, nothing when the split raises
TrackIdOf(song) ==
    IF LinkRaises(song) THEN "raises"
    ELSE IF song.link = "track" THEN "track_id" ELSE "whole_link"

InRounds(st) == 1 <= st.game_round /\ st.game_round <= ROUNDS

\* the iframe with embed_url is rendered in this run of game_page
EmbedBuilt(st) ==
    st.page = "Game" /\ st.quiz_keys /\ InRounds(st)
    /\ TrackIdOf(st.current_song) # "raises"

\* the scoring block without its lock
ScoreRoundNoLock(st) ==
    [st EXCEPT !.total_score = @ + RoundScore(st.current_song, st.guesses),
               !.last_round_score = RoundScore(st.current_song, st.guesses),
               !.score_calculated = TRUE]

\* "if not st.session_state.score_calculated: ..." (the lock of KORREKTUR 2)
ScoreRound(st) ==
    IF ~st.score_calculated
    THEN [st EXCEPT !.total_score = @ + RoundScore(st.current_song, st.guesses),
                    !.last_round_score = RoundScore(st.current_song, st.guesses),
                    !.score_calculated = TRUE]
    ELSE st

\* a result view shown whether or not a guess was submitted
ResultAlwaysShown(st) == TRUE

\* "if not st.session_state.guess_submitted: <form> else: <result>"
ResultShown(st) == st.guess_submitted

\* the part "SPIELABLAUF" of a run in which no button is pressed
ShowRound(st) ==
    IF InRounds(st) /\ ~LinkRaises(st.current_song) /\ ResultShown(st)
    THEN ScoreRound(st)
    ELSE st

game_page(st) == ShowRound(InitQuizKeys(st))

\* the run of game_page on st executes the body of the scoring block with
\* the lock open: a round total is scored
RoundIsScored(st) ==
    InRounds(st) /\ ~LinkRaises(st.current_song) /\ ResultShown(st)
    /\ ~st.score_calculated

-----------------------------------------------------------------------------
(* Initial states: every session has run the script once *)

\* "if df is None: st.stop()" comes before the page key is set
NoRounds == [n |-> 0, sum |-> 0]

FirstRun == IF df.is_none THEN FreshSession
            ELSE [FreshSession EXCEPT !.page = "Explorer"]

InitWith(ss, data, games, saves) ==
    /\ df \in data
    /\ sessions = ss
    /\ session_state = [s \in ss |-> FirstRun]
    /\ pc = [s \in ss |-> "idle"]
    /\ highscore_file = <<>>
    /\ file_size = NoFile
    /\ notice = [s \in ss |-> "none"]
    /\ drawn = [s \in ss |-> {}]
    /\ scored = [s \in ss |-> NoRounds]
    /\ recorded = <<>>
    /\ games_left = [s \in ss |-> games]
    /\ saves_left = saves

Init == InitWith({1}, Datasets, MaxGames, MaxSaves)

-----------------------------------------------------------------------------
(* Script runs *)

\* the session's state and message after the run and what the run leaves
\* to do; the histories are set by the actions
Finish(s, st, msg, p) ==
    /\ session_state' = [session_state EXCEPT ![s] = st]
    /\ notice' = [notice EXCEPT ![s] = msg]
    /\ pc' = [pc EXCEPT ![s] = p]

\* the session's script can start a run
CanRun(s) == s \in sessions /\ pc[s] \in {"idle", "rerun"}

OnQuiz(s) ==
    /\ s \in sessions
    /\ ~df.is_none
    /\ session_state[s].page = "Game"
    /\ session_state[s].quiz_keys

\* the last run of the session rendered game_page to its end: its widgets
\* are what the browser shows
QuizRendered(s) == OnQuiz(s) /\ pc[s] = "idle"

\* the run of game_page ends in the except branch of the player
PlayerFails(st) ==
    st.page = "Game" /\ st.quiz_keys /\ InRounds(st) /\ LinkRaises(st.current_song)

\* the last run of the session rendered explorer_page up to its selectbox
\* "Waehle einen Song:" (an empty frame returns before it)
ExplorerRendered(s) ==
    /\ s \in sessions
    /\ ~df.is_none
    /\ df.rows # {}
    /\ session_state[s].page = "Explorer"
    /\ pc[s] = "idle"

\* "if selected_option: ... selected_song['link'].split('/track/')" of
\* explorer_page, outside any try: the run ends in the exception
ExplorerRaises(st) ==
    st.song_select # NoSong /\ LinkRaises(st.song_select)

\* the session state after a run that does not render the selectbox:
\* Streamlit drops the value of the key "song_select"
WithoutSelectbox(st) == [st EXCEPT !.song_select = NoSong]

\* the history of round totals after a run of game_page on st
ScoredAfter(s, st) ==
    IF RoundIsScored(st)
    THEN [scored EXCEPT
            ![s] = [n   |-> @.n + 1,
                    sum |-> @.sum + RoundScore(st.current_song, st.guesses)]]
    ELSE scored

\* a run without a widget event of the script's own: the rerun a run asked
\* for, a manual rerun, a widget of the explorer
Rerun(s) ==
    /\ CanRun(s)
    /\ ~PlayerFails(session_state[s])
    /\ IF df.is_none \/ session_state[s].page # "Game"
       THEN /\ Finish(s, session_state[s],
                      IF ExplorerRaises(session_state[s])
                      THEN "exception" ELSE "none", "idle")
            /\ UNCHANGED scored
       ELSE /\ Finish(s, WithoutSelectbox(game_page(session_state[s])),
                      "none", "idle")
            /\ scored' = ScoredAfter(s, session_state[s])
    /\ UNCHANGED <<df, sessions, highscore_file, file_size, drawn, recorded,
                   games_left, saves_left>>

\* selectbox "Waehle einen Song:" of the explorer set to the row t (NoSong
\* for its empty option): the run builds the player of the selected song
SelectSong(s, t) ==
    /\ ExplorerRendered(s)
    /\ t \in df.rows \cup {NoSong}
    /\ t # session_state[s].song_select
    /\ Finish(s, [session_state[s] EXCEPT !.song_select = t],
              IF ExplorerRaises([session_state[s] EXCEPT !.song_select = t])
              THEN "exception" ELSE "none", "idle")
    /\ UNCHANGED <<df, sessions, highscore_file, file_size, drawn, scored,
                   recorded, games_left, saves_left>>

\* a page switch that also sends the quiz back to its start
SwitchPageRestartsQuiz(st, p) ==
    WithoutSelectbox([st EXCEPT !.page = p, !.game_round = 0])

\* "st.session_state.page = ..." of the sidebar buttons; st.rerun() ends the
\* run before a page is rendered, so the run renders no selectbox
SwitchPage(st, p) == WithoutSelectbox([st EXCEPT !.page = p])

\* sidebar button "Musik-Explorer": page, then st.rerun()
ClickExplorer(s) ==
    /\ CanRun(s)
    /\ ~df.is_none
    /\ Finish(s, SwitchPage(session_state[s], "Explorer"), "none", "rerun")
    /\ UNCHANGED <<df, sessions, highscore_file, file_size, drawn, scored,
                   recorded, games_left, saves_left>>

\* sidebar button "Song-Quiz": page, then st.rerun()
ClickQuiz(s) ==
    /\ CanRun(s)
    /\ ~df.is_none
    /\ Finish(s, SwitchPage(session_state[s], "Game"), "none", "rerun")
    /\ UNCHANGED <<df, sessions, highscore_file, file_size, drawn, scored,
                   recorded, games_left, saves_left>>

\* a start that leaves the total of the last quiz in place
NewGameKeepsTotal(st, t) ==
    [st EXCEPT !.game_round = 1, !.current_song = t,
               !.guess_submitted = FALSE, !.score_calculated = FALSE]

\* "Reset fuer ein komplett neues Spiel" with the sampled row t
NewGame(st, t) ==
    [st EXCEPT !.game_round = 1, !.total_score = 0, !.current_song = t,
               !.guess_submitted = FALSE, !.score_calculated = FALSE]

\* button "Neues Spiel starten!", then st.rerun(); df_game.sample(1) raises on
\* an empty frame, after game_round and total_score are set, and ends the run
StartGame(s) ==
    /\ QuizRendered(s)
    /\ session_state[s].game_round = 0
    /\ games_left[s] > 0
    /\ games_left' = [games_left EXCEPT ![s] = @ - 1]
    /\ scored' = [scored EXCEPT ![s] = NoRounds]
    /\ IF df.rows = {}
       THEN /\ Finish(s, [session_state[s] EXCEPT !.game_round = 1,
                                                  !.total_score = 0],
                      "exception", "idle")
            /\ drawn' = [drawn EXCEPT ![s] = {}]
       ELSE \E t \in df.rows :
            /\ Finish(s, NewGame(session_state[s], t), "none", "rerun")
            /\ drawn' = [drawn EXCEPT ![s] = {t.id}]
    /\ UNCHANGED <<df, sessions, highscore_file, file_size, recorded,
                   saves_left>>

\* a run of game_page that ends in the except branch of the player: a new
\* sample, then st.rerun(); the sample raises on an empty frame
LinkFailureRedraw(s) ==
    /\ CanRun(s)
    /\ OnQuiz(s)
    /\ PlayerFails(session_state[s])
    /\ IF df.rows = {}
       THEN /\ Finish(s, session_state[s], "exception", "idle")
            /\ UNCHANGED drawn
       ELSE \E t \in df.rows :
            /\ Finish(s, WithoutSelectbox([session_state[s] EXCEPT
                                                !.current_song = t]),
                      "song_error", "rerun")
            /\ drawn' = [drawn EXCEPT ![s] = @ \cup {t.id}]
    /\ UNCHANGED <<df, sessions, highscore_file, file_size, scored, recorded,
                   games_left, saves_left>>

\* form button "Schaetzung abgeben": guesses, guess_submitted, then
\* st.rerun(); the round is scored by the next run of game_page
SubmitGuess(s, g) ==
    /\ QuizRendered(s)
    /\ InRounds(session_state[s])
    /\ ~LinkRaises(session_state[s].current_song)
    /\ ~ResultShown(session_state[s])
    /\ Finish(s, [session_state[s] EXCEPT !.guesses = g,
                                          !.guess_submitted = TRUE],
              "none", "rerun")
    /\ UNCHANGED <<df, sessions, highscore_file, file_size, drawn, scored,
                   recorded, games_left, saves_left>>

\* button "Naechster Song", rendered below the result of the round (the run
\* passes the scoring block on its way to the button), then st.rerun()
NextSong(s) ==
    /\ QuizRendered(s)
    /\ InRounds(session_state[s])
    /\ ~LinkRaises(session_state[s].current_song)
    /\ ResultShown(session_state[s])
    /\ \E t \in df.rows :
        /\ Finish(s, [ScoreRound(session_state[s]) EXCEPT
                         !.game_round = @ + 1,
                         !.guess_submitted = FALSE,
                         !.score_calculated = FALSE,
                         !.current_song = t], "none", "rerun")
        /\ drawn' = [drawn EXCEPT
                       ![s] = IF session_state[s].game_round < ROUNDS
                              THEN @ \cup {t.id} ELSE @]
    /\ scored' = ScoredAfter(s, session_state[s])
    /\ UNCHANGED <<df, sessions, highscore_file, file_size, recorded,
                   games_left, saves_left>>

\* the end-of-game branch entered one round early
GameOverFromLastRound(st) == st.game_round >= ROUNDS

\* "if game_round == 0 ... elif game_round <= 5 ... else: # Spielende"
GameOver(st) == st.game_round > ROUNDS

\* form "highscore_form", "if submit_button and player_name: ...", up to
\* open(HIGHSCORE_FILE, 'w') in save_highscores, which empties the file
SaveHighscore(s, player_name) ==
    /\ QuizRendered(s)
    /\ GameOver(session_state[s])
    /\ IF player_name # ""
       THEN /\ saves_left > 0
            /\ saves_left' = saves_left - 1
            /\ Finish(s, [session_state[s] EXCEPT
                             !.high_scores = WithNewScore(@,
                                 [name |-> player_name,
                                  score |-> session_state[s].total_score])],
                      "none", "dump")
            /\ highscore_file' = <<>>
            /\ file_size' = 0
            /\ recorded' = Append(recorded, session_state[s].total_score)
       ELSE /\ Finish(s, session_state[s], "none", "idle")
            /\ UNCHANGED <<highscore_file, file_size, recorded, saves_left>>
    /\ UNCHANGED <<df, sessions, drawn, scored, games_left>>

\* json.dump and close in save_highscores: the text of the session's list
\* is written from offset 0 over what the file holds by now (a longer text
\* written since the open keeps its tail); then st.success
DumpHighscores(s) ==
    /\ s \in sessions
    /\ pc[s] = "dump"
    /\ highscore_file' = session_state[s].high_scores
    /\ file_size' = Max(file_size, TextLen(session_state[s].high_scores))
    /\ Finish(s, session_state[s], "saved", "idle")
    /\ UNCHANGED <<df, sessions, drawn, scored, recorded, games_left,
                   saves_left>>

\* button "Nochmal spielen?", then st.rerun()
PlayAgain(s) ==
    /\ QuizRendered(s)
    /\ GameOver(session_state[s])
    /\ Finish(s, [session_state[s] EXCEPT !.game_round = 0], "none", "rerun")
    /\ UNCHANGED <<df, sessions, highscore_file, file_size, drawn, scored,
                   recorded, games_left, saves_left>>

Next ==
    \E s \in SessionIds :
        \/ StartGame(s)
        \/ LinkFailureRedraw(s)
        \/ \E g \in GuessInputs : SubmitGuess(s, g)
        \/ NextSong(s)
        \/ \E n \in PlayerNames : SaveHighscore(s, n)
        \/ DumpHighscores(s)
        \/ PlayAgain(s)
        \/ ClickExplorer(s)
        \/ ClickQuiz(s)
        \/ \E t \in Tracks \cup {NoSong} : SelectSong(s, t)
        \/ Rerun(s)

Spec == Init /\ [][Next]_vars

-----------------------------------------------------------------------------
(* Two browser sessions on one process: they share highscores.json only *)

InitMulti ==
    InitWith(SessionIds, {DataFrame({T1, T3})}, MaxGamesMulti, MaxSavesMulti)

SpecMulti == InitMulti /\ [][Next]_vars

-----------------------------------------------------------------------------
(* Scoring of one round over the whole range of the sliders *)

ScoreFeatureValues == {0, 55, 100}

ScoreTracks ==
    {Track(1000 + 100 * d + 10 * e + v, "track", d, e, v, 50) :
        d \in ScoreFeatureValues, e \in ScoreFeatureValues,
        v \in ScoreFeatureValues}

SliderRange == SLIDER_MIN .. SLIDER_MAX

SliderMarks == {SLIDER_MIN, SLIDER_MAX}

\* every slider takes every value of its range, the other two a few
ScoreGuesses ==
    {Guess(d, e, v) : d \in SliderRange, e \in SliderMarks, v \in SliderMarks}
    \cup {Guess(d, e, v) : d \in SliderMarks, e \in SliderRange, v \in SliderMarks}
    \cup {Guess(d, e, v) : d \in SliderMarks, e \in SliderMarks, v \in SliderRange}

\* round 1 of a first quiz, right after "Neues Spiel starten!" and its rerun
InitScore ==
    /\ df = DataFrame(ScoreTracks)
    /\ sessions = {1}
    /\ pc = [s \in {1} |-> "idle"]
    /\ highscore_file = <<>>
    /\ file_size = NoFile
    /\ \E t \in ScoreTracks :
        /\ session_state =
             [s \in {1} |-> NewGame(InitQuizKeys([FreshSession EXCEPT
                                                     !.page = "Game"]), t)]
        /\ drawn = [s \in {1} |-> {t.id}]
    /\ notice = [s \in {1} |-> "none"]
    /\ scored = [s \in {1} |-> NoRounds]
    /\ recorded = <<>>
    /\ games_left = [s \in {1} |-> 0]
    /\ saves_left = 0

\* the guess of the round and the rerun that scores it
NextScore ==
    \/ /\ ~session_state[1].guess_submitted
       /\ \E g \in ScoreGuesses : SubmitGuess(1, g)
    \/ Rerun(1)

SpecScore == InitScore /\ [][NextScore]_vars

-----------------------------------------------------------------------------
(* Properties *)

Quiz(s) == session_state[s]

Finished(s) == Quiz(s).quiz_keys /\ Quiz(s).game_round > ROUNDS

\* C1: within one quiz no track is drawn twice: a draw at "Naechster Song"
\* or after a link failure that opens or continues a round picks a track
\* that was not drawn before in that quiz.
C1_NoTrackDrawnTwice ==
    [][\A s \in SessionIds :
          ((NextSong(s) \/ LinkFailureRedraw(s)) /\ InRounds(session_state'[s])
              /\ df.rows # {})
          => session_state'[s].current_song.id \notin drawn[s]]_vars

\* C2: a finished quiz has scored exactly min(5, size of the pool) rounds.
C2_FinishedAfterMinRounds ==
    \A s \in sessions :
        Finished(s) => scored[s].n = Min(ROUNDS, Cardinality(df.rows))

\* the value of a feature on the 0-100 scale of the data frame
FeatureValue(song, attr) ==
    CASE attr = "dance" -> song.danceability
      [] attr = "energy" -> song.energy
      [] attr = "valence" -> song.valence

\* C3: the points awarded for a feature are max(0, 100 - |guess - actual|)
\* with actual the feature's value on the 0-100 scale of the data frame.
C3_PointsOnCanonicalScale ==
    \A s \in sessions :
        (Quiz(s).quiz_keys /\ Quiz(s).score_calculated) =>
            \A a \in Attrs :
                DisplayedPoints(Quiz(s).current_song, Quiz(s).guesses, a)
                    = Max(0, 100 - Abs(Quiz(s).guesses[a]
                                       - FeatureValue(Quiz(s).current_song, a)))

\* C4 as stated: a guess is scored for each of the four features
\* danceability, energy, valence and popularity, and the round total lies in
\* 0..400.
C4_FourScoredFeatures ==
    \A s \in sessions :
        (Quiz(s).quiz_keys /\ Quiz(s).score_calculated) =>
            /\ DOMAIN Quiz(s).guesses = {"dance", "energy", "valence", "popularity"}
            /\ Quiz(s).last_round_score \in 0 .. 400

\* C4 amended: the round total is the sum of the points of the three scored
\* features danceability, energy and valence, and lies in 0..300.
C4_ThreeScoredFeatures ==
    \A s \in sessions :
        (Quiz(s).quiz_keys /\ Quiz(s).score_calculated) =>
            /\ DOMAIN Quiz(s).guesses = {"dance", "energy", "valence"}
            /\ Quiz(s).last_round_score =
                  DisplayedPoints(Quiz(s).current_song, Quiz(s).guesses, "dance")
                  + DisplayedPoints(Quiz(s).current_song, Quiz(s).guesses, "energy")
                  + DisplayedPoints(Quiz(s).current_song, Quiz(s).guesses, "valence")
            /\ Quiz(s).last_round_score \in 0 .. 300

\* a round scored with the full 300 points: valence 100 met by the guess 10
C4_Witness ==
    Quiz(1).quiz_keys /\ Quiz(1).score_calculated
    /\ Quiz(1).last_round_score = 300 /\ Quiz(1).current_song.valence = 100
    /\ Quiz(1).guesses["valence"] = 10

\* C5: whatever runs, page switches and clicks happened, the running total
\* is the sum of the round totals scored so far in the quiz: every round
\* total is added exactly once.
C5_TotalIsSumOfRoundTotals ==
    \A s \in sessions :
        Quiz(s).quiz_keys => Quiz(s).total_score = scored[s].sum

\* two rounds scored, the result of the second seen again after a visit of
\* the explorer page
C5_Witness ==
    /\ Quiz(1).quiz_keys /\ Quiz(1).page = "Explorer"
    /\ Quiz(1).game_round = 2 /\ Quiz(1).score_calculated
    /\ scored[1].n = 2 /\ Quiz(1).total_score = 330

\* C6: guesses are accepted and rounds advance only in their state: in every
\* round reached, each earlier round has exactly one scored guess, the
\* current round has one exactly when its score is computed, a score is
\* computed only for a submitted guess, and a finished quiz has five.
C6_OneScoredGuessPerRound ==
    \A s \in sessions :
        Quiz(s).quiz_keys =>
            /\ InRounds(Quiz(s)) =>
                  /\ scored[s].n = Quiz(s).game_round - 1
                                   + (IF Quiz(s).score_calculated THEN 1 ELSE 0)
                  /\ Quiz(s).score_calculated => Quiz(s).guess_submitted
                  /\ QuizRendered(s) =>
                        Quiz(s).guess_submitted = Quiz(s).score_calculated
            /\ Finished(s) => scored[s].n = ROUNDS /\ ~Quiz(s).guess_submitted

\* the last round with its guess scored
C6_Witness ==
    /\ QuizRendered(1) /\ Quiz(1).game_round = ROUNDS
    /\ Quiz(1).guess_submitted /\ scored[1].n = ROUNDS

\* C7: the round counter becomes 1 only from 0, and the quiz that starts has
\* total 0, no submitted guess, no score computed and, on a frame with rows,
\* a row of the frame as its song, whatever an earlier quiz left behind.
C7_StartResetsTheQuiz ==
    [][\A s \in SessionIds :
          (s \in sessions /\ Quiz(s).quiz_keys
             /\ session_state'[s].game_round = 1 /\ Quiz(s).game_round # 1)
          => /\ Quiz(s).game_round = 0
             /\ session_state'[s].total_score = 0
             /\ ~session_state'[s].guess_submitted
             /\ ~session_state'[s].score_calculated
             /\ df.rows # {} =>
                   /\ session_state'[s].current_song \in df.rows
                   /\ drawn'[s] = {session_state'[s].current_song.id}]_vars

\* the second quiz of a session has started: the last quiz left its round
\* score behind, the total is back at 0
C7_Witness ==
    /\ Quiz(1).quiz_keys /\ Quiz(1).game_round = 1 /\ games_left[1] = MaxGames - 2
    /\ Quiz(1).last_round_score > 0 /\ Quiz(1).total_score = 0
    /\ Quiz(1).current_song \in df.rows

ScoresOf(list) == [i \in 1 .. Len(list) |-> list[i].score]

RemoveAt(seq, i) == SubSeq(seq, 1, i - 1) \o SubSeq(seq, i + 1, Len(seq))

\* the numbers of seq, largest first
RECURSIVE LargestFirst(_)
LargestFirst(seq) ==
    IF seq = <<>> THEN <<>>
    ELSE LET i == CHOOSE k \in 1 .. Len(seq) :
                      \A j \in 1 .. Len(seq) : seq[k] >= seq[j]
         IN  <<seq[i]>> \o LargestFirst(RemoveAt(seq, i))

\* no session is inside save_highscores
NoWrite == \A s \in sessions : pc[s] # "dump"

\* C8: starting from an empty store, after every save the stored list and
\* the list a session displays hold the five highest scores recorded so far
\* (all of them when fewer), largest first, and never more than five entries.
C8_TopFiveOfRecorded ==
    NoWrite =>
        /\ Len(load_highscores) <= 5
        /\ ScoresOf(load_highscores)
              = SubSeq(LargestFirst(recorded), 1, Min(5, Len(recorded)))
        /\ \A s \in sessions :
              Quiz(s).quiz_keys => Quiz(s).high_scores = load_highscores

\* six scores recorded, a later one higher than the first: the list was
\* re-sorted and cut
C8_Witness ==
    /\ NoWrite /\ Len(recorded) = 6 /\ recorded[1] < recorded[6]
    /\ Len(load_highscores) = 5 /\ load_highscores[1].score = recorded[6]

\* C9: "Highscore speichern" with an empty name leaves the list and the file
\* as they are and tells the user that the entry was rejected.
C9_EmptyNameRejectedWithSignal ==
    [][\A s \in SessionIds :
          SaveHighscore(s, "")
          => /\ session_state'[s].high_scores = Quiz(s).high_scores
             /\ highscore_file' = highscore_file
             /\ notice'[s] = "invalid_entry"]_vars

\* C10: no save loses an entry another session recorded: once the saves are
\* through and while no more than five scores were recorded, the file holds
\* one entry for each of them.
C10_NoLostUpdate ==
    (NoWrite /\ Len(recorded) <= TOP_N) => Len(load_highscores) = Len(recorded)

\* a row whose link lacks the /track/ segment or is no string
Malformed(song) == song.link \in {"other", "missing"}

\* C11: a song with a malformed link gets no embed URL, and the handling of
\* its link leaves the round counter, the running total and the drawn song
\* of the quiz as they are.
C11_MalformedLinkIsolated ==
    [][\A s \in SessionIds :
          (OnQuiz(s) /\ InRounds(Quiz(s)) /\ Malformed(Quiz(s).current_song))
          => /\ ~EmbedBuilt(Quiz(s))
             /\ LinkFailureRedraw(s) =>
                   /\ session_state'[s].current_song = Quiz(s).current_song
                   /\ session_state'[s].game_round = Quiz(s).game_round
                   /\ session_state'[s].total_score = Quiz(s).total_score]_vars

\* C12: when load_data gives no frame or a frame without rows, no session
\* enters the quiz view and no quiz is started.
C12_NoQuizWithoutData ==
    (df.is_none \/ df.rows = {}) =>
        \A s \in sessions :
            ~(Quiz(s).page = "Game" /\ Quiz(s).quiz_keys) /\ Quiz(s).game_round = 0

\* the step changes the file or the list of a session that has one
LeaderboardChanges ==
    \/ highscore_file' # highscore_file
    \/ file_size' # file_size
    \/ \E s \in sessions :
          /\ Quiz(s).quiz_keys
          /\ session_state'[s].high_scores # Quiz(s).high_scores

\* C13: the highscore list of a session or the file changes only by a save
\* from a finished quiz: the round counter is past the last round, all five
\* rounds are scored, the score handed over is the total of that quiz (the
\* sum of its round totals), every entry new in the list has that score, and
\* the text written is that list.
C13_RecordedOnlyWhenFinished ==
    [][LeaderboardChanges
       => \E s \in sessions :
             /\ Finished(s)
             /\ scored[s].n = ROUNDS
             /\ Quiz(s).total_score = scored[s].sum
             /\ session_state'[s].game_round = Quiz(s).game_round
             /\ session_state'[s].total_score = Quiz(s).total_score
             /\ recorded' # recorded
                   => recorded' = Append(recorded, Quiz(s).total_score)
             /\ \A i \in 1 .. Len(session_state'[s].high_scores) :
                   \/ session_state'[s].high_scores[i].score = Quiz(s).total_score
                   \/ \E j \in 1 .. Len(Quiz(s).high_scores) :
                         Quiz(s).high_scores[j] = session_state'[s].high_scores[i]
             /\ pc[s] = "dump" => highscore_file' = Quiz(s).high_scores]_vars

\* a score of a finished quiz was just saved
C13_Witness ==
    /\ notice[1] = "saved" /\ Finished(1)
    /\ Len(load_highscores) = 1 /\ load_highscores[1].score = scored[1].sum
    /\ scored[1].sum > 0

\* C14: a finished quiz adds at most one entry: the number of recorded
\* scores never exceeds the number of quizzes the session has started.
C14_OneEntryPerQuiz ==
    \A s \in sessions :
        sessions = {s} => Len(recorded) <= MaxGames - games_left[s]

\* the fields of the quiz that the claim names
QuizFields(st) ==
    <<st.game_round, st.total_score, st.current_song, st.guesses,
      st.guess_submitted, st.score_calculated, st.last_round_score>>

\* a click on one of the two sidebar buttons
PageSwitch(s) == ClickExplorer(s) \/ ClickQuiz(s)

\* a guess of the running round is submitted and its score not yet added
ScorePending(st) ==
    /\ st.quiz_keys /\ st.game_round >= 1 /\ st.game_round <= ROUNDS
    /\ st.guess_submitted /\ ~st.score_calculated

====
